---- MODULE Spec2Model ----
(***************************************************************************)
(* A model of ksicht/core/models.py: the Grade store with its overlap      *)
(* validation and date-window managers, the Series submission window, the  *)
(* results aggregation of GradeSeries.calculate_results and the sticker    *)
(* resolution / persistence functions.                                     *)
(*                                                                         *)
(* Python values are encoded as follows.  None in a numeric position       *)
(* (score, max_score, a dict key) is the integer None == -1, all real      *)
(* numbers of the model being >= 0.  An Optional model instance (the       *)
(* result of QuerySet.first() or pydash head()) is a set with at most one  *)
(* element, {} standing for None.  Dates and datetimes are integers.       *)
(***************************************************************************)
EXTENDS Integers, Sequences, FiniteSets, Bags, TLC

VARIABLES
    grades,          \* stored Grade rows: records [pk, start_date, end_date]
    lastGradeWrite,  \* outcome of the last Grade create/update attempt
    series,          \* stored GradeSeries rows
    now,             \* the clock read by datetime.now()
    tasks,           \* stored Task rows, indexed by pk
    applications,    \* stored GradeApplication rows, indexed by pk
    submissions,     \* stored TaskSolutionSubmission rows (a bag)
    results,         \* value returned by the last calculate_results call
    stickers,        \* stored Sticker rows, indexed by pk
    uses,            \* Sticker.uses: set of <<sticker pk, application pk>>
    listing,         \* eligibility listing passed to sticker_auto_assignment
    resolved,        \* value returned by sticker_auto_assignment
    synced           \* calls of sync_sticker_assignment on resolved so far

vars == <<grades, lastGradeWrite, series, now, tasks, applications,
          submissions, results, stickers, uses, listing, resolved, synced>>

gradeVars   == <<grades, lastGradeWrite>>
seriesVars  == <<series, now>>
resultVars  == <<tasks, applications, submissions, results>>
stickerVars == <<stickers, uses, listing, resolved, synced>>

\* Python's None where a number is expected.
None == -1

(***************************************************************************)
(* Bounds of the model.                                                    *)
(***************************************************************************)
MaxGrades == 3
MaxDay == 4
MaxOrdinal == 2
MaxTime == 3

GradeIds == 1..MaxGrades
Days == 1..MaxDay
Times == 0..MaxTime

(***************************************************************************)
(* Grade: validation and the GradeManager queries.                         *)
(***************************************************************************)

\* The queryset of full_clean: grades other than pk whose range contains
\* the candidate's start_date or the candidate's end_date.
FullCleanConflicts(pk, start_date, end_date) ==
    { g \in grades :
        /\ \/ (g.start_date <= start_date /\ g.end_date >= start_date)
           \/ (g.start_date <= end_date /\ g.end_date >= end_date)
        /\ g.pk # pk }

\* full_clean raises ValidationError iff the queryset's first() is truthy.
FullCleanRaises(pk, start_date, end_date) ==
    FullCleanConflicts(pk, start_date, end_date) # {}

\* A create (pk not stored) or an update (pk stored) of a Grade through
\* validation: the row is written only if full_clean did not raise.
SaveGrade(pk, start_date, end_date) ==
    /\ start_date <= end_date
    /\ IF FullCleanRaises(pk, start_date, end_date)
       THEN /\ lastGradeWrite' = "ValidationError"
            /\ grades' = grades
       ELSE /\ lastGradeWrite' = "saved"
            /\ grades' = { g \in grades : g.pk # pk } \cup
                   { [pk |-> pk, start_date |-> start_date,
                      end_date |-> end_date] }
    /\ UNCHANGED <<seriesVars, resultVars, stickerVars>>

\* Grade.objects.filter(start_date__lte=d, end_date__gte=d)
GradesContaining(d) ==
    { g \in grades : g.start_date <= d /\ g.end_date >= d }

\* GradeManager.get_current: first() of the filter under Meta.ordering
\* ("-end_date",); {} is None.
get_current(d) ==
    LET found == GradesContaining(d)
    IN  IF found = {} THEN {}
        ELSE { CHOOSE g \in found :
                 \A h \in found : h.end_date <= g.end_date }

\* GradeManager.archive
archive(d) == { g \in grades : g.end_date < d }

(***************************************************************************)
(* GradeSeries: the submission window.                                     *)
(***************************************************************************)
NoFile == "NULL"
FileNames == {"rocniky/zadani/brozura.pdf"}
Ordinals == 1..MaxOrdinal
SeriesGrades == {1, 2}

\* The attribute self.task_file: the FileField descriptor hands out a
\* FieldFile object wrapping the stored column, also when the column is
\* NULL; it never hands out None.
TaskFileAttr(s) == [type |-> "FieldFile", name |-> s.task_file]

IsNotNone(v) == v.type # "NoneType"

\* GradeSeries.accepts_solution_submissions
accepts_solution_submissions(s) ==
    IsNotNone(TaskFileAttr(s)) /\ s.submission_deadline > now

\* self.series.all() of a grade
SeriesOf(g) == { s \in series : s.grade = g }

\* Grade.get_current_series: filter, stable sort by submission_deadline of
\* the list in Meta.ordering ("grade", "series"), head; {} is None.
get_current_series(g) ==
    LET accepting == { s \in SeriesOf(g) : accepts_solution_submissions(s) }
    IN  IF accepting = {} THEN {}
        ELSE { CHOOSE s \in accepting :
                 \A r \in accepting :
                    \/ s.submission_deadline < r.submission_deadline
                    \/ /\ s.submission_deadline = r.submission_deadline
                       /\ s.series <= r.series }

\* A new Series row; unique_together = ("grade", "series").
AddSeries(g, ordinal, deadline, file) ==
    /\ \A s \in series : ~(s.grade = g /\ s.series = ordinal)
    /\ series' = series \cup
          { [grade |-> g, series |-> ordinal,
             submission_deadline |-> deadline, task_file |-> file] }
    /\ UNCHANGED <<now, gradeVars, resultVars, stickerVars>>

\* The task file of a Series is attached, replaced or cleared.
SetTaskFile(s, file) ==
    /\ s \in series
    /\ s.task_file # file
    /\ series' = (series \ {s}) \cup { [s EXCEPT !.task_file = file] }
    /\ UNCHANGED <<now, gradeVars, resultVars, stickerVars>>

\* Time passes.
Tick ==
    /\ now < MaxTime
    /\ now' = now + 1
    /\ UNCHANGED <<series, gradeVars, resultVars, stickerVars>>

(***************************************************************************)
(* Results: GradeSeries.calculate_results.                                 *)
(***************************************************************************)
MaxTasks == 2
MaxApps == 2
MaxSubs == 2
RankMaxApps == 3
RankMaxSubs == 2

ResultGrades == {1, 2}
Points == {1, 2}
Scores == {0, 1, 2}
RankGrades == {1}
RankScores == {1, 2}

\* The primary key of a Series as a foreign key of a Task.
SeriesKey(g, ordinal) == [grade |-> g, series |-> ordinal]

\* self.grade.applications.all(): primary keys of the grade's applications
ApplicationsOf(g) ==
    { a \in DOMAIN applications : applications[a].grade = g }

\* self.tasks.all(): primary keys of the Tasks of Series S
TasksOf(S) ==
    { t \in DOMAIN tasks : tasks[t].series = SeriesKey(S.grade, S.series) }

\* TaskSolutionSubmission.objects.filter(application__grade=self.grade,
\*                                       task__series__series__lte=self.series)
SubmissionsFor(S) ==
    { s \in BagToSet(submissions) :
        /\ applications[s.application].grade = S.grade
        /\ tasks[s.task].series.series <= S.series }

\* _find_task: the Task of S with this pk, None when S has none
FindTask(S, task_id) == IF task_id \in TasksOf(S) THEN task_id ELSE None

\* s.score or 0
ScoreOrZero(score) == IF score = None THEN 0 ELSE score

\* The running "total" of one application after the loop over the rows of
\* subs, every stored copy of a row being one iteration.
RECURSIVE SumScores(_)
SumScores(subs) ==
    IF subs = {} THEN 0
    ELSE LET s == CHOOSE x \in subs : TRUE
         IN  submissions[s] * ScoreOrZero(s.score) + SumScores(subs \ {s})

TotalOf(S, a) ==
    SumScores({ s \in SubmissionsFor(S) : s.application = a })

\* The keys of scoring_dict[a]["by_tasks"] after the loop: the Tasks of S,
\* and whatever _find_task returned for a submission of a.
ByTasksKeys(S, a) ==
    TasksOf(S) \cup
    { FindTask(S, s.task) : s \in { x \in SubmissionsFor(S) : x.application = a } }

\* scoring_dict[a]["by_tasks"] after the loop "for s in submissions" has
\* gone through the rows in the order fetched: a key no row was stored
\* under keeps None, the others hold the score of the last row stored
\* under them.
ByTasksAfterLoop(S, a, fetched) ==
    [k \in ByTasksKeys(S, a) |->
        LET under == { i \in DOMAIN fetched :
                         /\ fetched[i].application = a
                         /\ FindTask(S, fetched[i].task) = k }
        IN  IF under = {} THEN None
            ELSE fetched[CHOOSE i \in under : \A j \in under : j <= i].score]

\* Task.objects.filter(series__grade=self.grade, series__series__lte=self.series)
TasksUpTo(S) ==
    { t \in DOMAIN tasks :
        tasks[t].series.grade = S.grade /\ tasks[t].series.series <= S.series }

RECURSIVE SumPoints(_)
SumPoints(ts) ==
    IF ts = {} THEN 0
    ELSE LET t == CHOOSE x \in ts : TRUE
         IN  tasks[t].points + SumPoints(ts \ {t})

\* aggregate(models.Sum("points"))["points__sum"]: SQL SUM, NULL (None)
\* over no rows.
MaxScore(S) ==
    IF TasksUpTo(S) = {} THEN None ELSE SumPoints(TasksUpTo(S))

\* Insert row behind the rows whose total is >= its own.
RECURSIVE InsertByTotalDesc(_, _)
InsertByTotalDesc(row, sorted) ==
    IF sorted = <<>> THEN <<row>>
    ELSE IF Head(sorted).total >= row.total
         THEN <<Head(sorted)>> \o InsertByTotalDesc(row, Tail(sorted))
         ELSE <<row>> \o sorted

RECURSIVE SortedBack(_)
SortedBack(scoring) ==
    IF scoring = <<>> THEN <<>>
    ELSE InsertByTotalDesc(scoring[Len(scoring)],
                           SortedBack(SubSeq(scoring, 1, Len(scoring) - 1)))

\* A descending sort that lets a later row of equal total overtake the
\* earlier ones (what sorted(scoring, key=...)[::-1] does).
SortedByTotalReversed(scoring) ==
    LET RECURSIVE InsertFront(_, _)
        InsertFront(row, sorted) ==
            IF sorted = <<>> THEN <<row>>
            ELSE IF Head(sorted).total > row.total
                 THEN <<Head(sorted)>> \o InsertFront(row, Tail(sorted))
                 ELSE <<row>> \o sorted
        RECURSIVE SortedFront(_)
        SortedFront(sc) ==
            IF sc = <<>> THEN <<>>
            ELSE InsertFront(sc[Len(sc)], SortedFront(SubSeq(sc, 1, Len(sc) - 1)))
    IN  SortedFront(scoring)

\* sorted(scoring, key=lambda row: row[2], reverse=True): descending by
\* total, rows of equal total keeping their order in scoring.
SortedByTotalDesc(scoring) == SortedBack(scoring)

\* The orders in which a queryset without ordering can hand out rows.
Orders(set) ==
    { p \in [1..Cardinality(set) -> set] :
        \A i, j \in 1..Cardinality(set) : i # j => p[i] # p[j] }

\* GradeSeries.calculate_results on Series S.  Neither GradeApplication
\* nor TaskSolutionSubmission has a Meta.ordering: retrieved and fetched
\* are the orders in which the rows came out of the store.  The function
\* only reads the store, so it is applied to each store state once: results
\* is empty after every write and holds the returned value after the call.
CalculateResults(S) ==
    /\ S \in series
    /\ results = <<>>
    /\ \E retrieved \in Orders(ApplicationsOf(S.grade)) :
       \E fetched \in Orders(SubmissionsFor(S)) :
          LET scoring == [i \in 1..Len(retrieved) |->
                            [application |-> retrieved[i],
                             by_tasks |-> ByTasksAfterLoop(S, retrieved[i], fetched),
                             total |-> TotalOf(S, retrieved[i])]]
          IN  results' = [series |-> S,
                          applications |-> retrieved,
                          max_score |-> MaxScore(S),
                          listing |-> SortedByTotalDesc(scoring)]
    /\ UNCHANGED <<tasks, applications, submissions, gradeVars, seriesVars,
                   stickerVars>>

\* A Task row is stored for an existing Series.
AddTask(g, ordinal, points, maxTasks) ==
    /\ Len(tasks) < maxTasks
    /\ \E s \in series : s.grade = g /\ s.series = ordinal
    /\ tasks' = Append(tasks, [series |-> SeriesKey(g, ordinal),
                               points |-> points])
    /\ results' = <<>>
    /\ UNCHANGED <<applications, submissions, gradeVars, seriesVars,
                   stickerVars>>

\* A participant applies to a grade.
AddApplication(g, maxApps) ==
    /\ Len(applications) < maxApps
    /\ \E gr \in grades : gr.pk = g
    /\ applications' = Append(applications, [grade |-> g])
    /\ results' = <<>>
    /\ UNCHANGED <<tasks, submissions, gradeVars, seriesVars, stickerVars>>

\* A solution is submitted: a row with no score yet.
AddSubmission(a, t, maxSubs) ==
    /\ BagCardinality(submissions) < maxSubs
    /\ a \in DOMAIN applications
    /\ t \in DOMAIN tasks
    /\ submissions' = submissions (+)
          SetToBag({ [application |-> a, task |-> t, score |-> None] })
    /\ results' = <<>>
    /\ UNCHANGED <<tasks, applications, gradeVars, seriesVars, stickerVars>>

\* A stored submission is given a score.
SetScore(s, score) ==
    /\ BagIn(s, submissions)
    /\ s.score # score
    /\ submissions' = (submissions (-) SetToBag({s})) (+)
          SetToBag({ [s EXCEPT !.score = score] })
    /\ results' = <<>>
    /\ UNCHANGED <<tasks, applications, gradeVars, seriesVars, stickerVars>>

(***************************************************************************)
(* Stickers: sticker_auto_assignment and sync_sticker_assignment.          *)
(***************************************************************************)
MaxStickers == 2
MaxListing == 2
MaxSyncListing == 2
MaxSyncs == 2

StickerApplications == {1, 2}
StickerNrs == {1, 2}
ListedNrSets == { {}, {2}, {1, 99}, {1, 2, 99} }

\* No listing is being processed: the values of a request are gone when
\* the request has ended.
Idle == listing = <<>> /\ resolved = <<>> /\ synced = 0

\* py_(...).flatten().uniq(): the numbers the listing names
ListedNrs(l) == UNION { l[i].nrs : i \in DOMAIN l }

\* Sticker.objects.filter(nr__in=sticker_nrs): primary keys
FetchedStickers(l) ==
    { s \in DOMAIN stickers : stickers[s].nr \in ListedNrs(l) }

\* {s.nr: s for s in ...}: one Sticker per number fetched; of several
\* Stickers with one number (nr is not unique) the one fetched last stays,
\* which can be any of them (Sticker has no Meta.ordering).
StickersByNr(l) ==
    { d \in [{ stickers[s].nr : s \in FetchedStickers(l) } -> FetchedStickers(l)] :
        \A n \in DOMAIN d : stickers[d[n]].nr = n }

\* The Stickers of every number fetched, whatever the item names.
ResolveAllFetched(stickers_by_nr, nrs) ==
    LET order == CHOOSE p \in [1..Cardinality(DOMAIN stickers_by_nr) ->
                                  DOMAIN stickers_by_nr] :
                    \A i, j \in DOMAIN p : i # j => p[i] # p[j]
    IN  [i \in DOMAIN order |-> stickers_by_nr[order[i]]]

\* [stickers_by_nr[nr] for nr in sticker_nrs if nr in stickers_by_nr],
\* nrs being the item's numbers in the order the set is iterated in.
ReplaceWithStickers(stickers_by_nr, nrs) ==
    LET RECURSIVE Walk(_)
        Walk(rest) ==
            IF rest = <<>> THEN <<>>
            ELSE IF Head(rest) \in DOMAIN stickers_by_nr
                 THEN <<stickers_by_nr[Head(rest)]>> \o Walk(Tail(rest))
                 ELSE Walk(Tail(rest))
    IN  Walk(nrs)

\* The orders in which the items' sets of numbers can be iterated.
IterationOrders(l) ==
    { it \in [DOMAIN l -> UNION { Orders(l[i].nrs) : i \in DOMAIN l }] :
        \A i \in DOMAIN l : it[i] \in Orders(l[i].nrs) }

\* sticker_auto_assignment(l): py_.map_ over the listing.
StickerAutoAssignment(l) ==
    /\ Idle
    /\ listing' = l
    /\ \E stickers_by_nr \in StickersByNr(l), it \in IterationOrders(l) :
          resolved' = [i \in DOMAIN l |->
                         [application |-> l[i].application,
                          stickers |-> ReplaceWithStickers(stickers_by_nr, it[i])]]
    /\ synced' = 0
    /\ UNCHANGED <<stickers, uses, gradeVars, seriesVars, resultVars>>

\* A many-to-many add that replaces the Sticker's award set by the one
\* application (uses.set([application])).
SetUse(assoc, sticker, application) ==
    { u \in assoc : u[1] # sticker } \cup { <<sticker, application>> }

\* sticker.uses.add(application): the association is inserted unless it
\* is there already.
AddUse(assoc, sticker, application) ==
    IF <<sticker, application>> \in assoc THEN assoc
    ELSE assoc \cup { <<sticker, application>> }

\* The inner loop of sync_sticker_assignment: for sticker in stickers
RECURSIVE AddUses(_, _, _)
AddUses(assoc, application, sts) ==
    IF sts = <<>> THEN assoc
    ELSE AddUses(AddUse(assoc, Head(sts), application), application, Tail(sts))

\* The outer loop: for application, stickers in eligibility_listing
RECURSIVE SyncLoop(_, _)
SyncLoop(assoc, l) ==
    IF l = <<>> THEN assoc
    ELSE SyncLoop(AddUses(assoc, Head(l).application, Head(l).stickers), Tail(l))

\* sync_sticker_assignment(resolved)
SyncStickerAssignment ==
    /\ synced < MaxSyncs
    /\ uses' = SyncLoop(uses, resolved)
    /\ synced' = synced + 1
    /\ UNCHANGED <<stickers, listing, resolved, gradeVars, seriesVars, resultVars>>

\* The request that resolved and persisted a listing ends.
Finish ==
    /\ ~Idle
    /\ listing' = <<>>
    /\ resolved' = <<>>
    /\ synced' = 0
    /\ UNCHANGED <<stickers, uses, gradeVars, seriesVars, resultVars>>

\* A Sticker row is stored, between two requests.
AddSticker(nr) ==
    /\ Idle
    /\ Len(stickers) < MaxStickers
    /\ stickers' = Append(stickers, [nr |-> nr])
    /\ UNCHANGED <<uses, listing, resolved, synced, gradeVars, seriesVars,
                   resultVars>>

\* The eligibility listings handed in: up to n (Application, set of
\* numbers) pairs.
Listings(n, nrSets) ==
    UNION { [1..k -> [application : StickerApplications, nrs : nrSets]] :
              k \in 0..n }

(***************************************************************************)
(* Specifications.                                                         *)
(***************************************************************************)
InitGrades ==
    /\ grades = {}
    /\ lastGradeWrite = "none"

InitSeries ==
    /\ series = {}
    /\ now = 0

InitResultsEmpty ==
    /\ tasks = <<>>
    /\ applications = <<>>
    /\ submissions = EmptyBag
    /\ results = <<>>

InitStickers ==
    /\ stickers = <<>>
    /\ uses = {}
    /\ listing = <<>>
    /\ resolved = <<>>
    /\ synced = 0

\* The Grade store under validated writes.
InitGrade == InitGrades /\ InitSeries /\ InitResultsEmpty /\ InitStickers

NextGrade ==
    \E pk \in GradeIds, s \in Days, e \in Days : SaveGrade(pk, s, e)

SpecGrade == InitGrade /\ [][NextGrade]_vars

\* The Series of the grades and the clock.
NextSeries ==
    \/ \E g \in SeriesGrades, o \in Ordinals, d \in Times,
          f \in FileNames \cup {NoFile} : AddSeries(g, o, d, f)
    \/ \E s \in series, f \in FileNames \cup {NoFile} : SetTaskFile(s, f)
    \/ Tick

SpecSeries == InitGrade /\ [][NextSeries]_vars

\* A store of two consecutive grades with every Series of each.
InitResults ==
    /\ grades = { [pk |-> 1, start_date |-> 1, end_date |-> 2],
                  [pk |-> 2, start_date |-> 3, end_date |-> 4] }
    /\ lastGradeWrite = "saved"
    /\ series = { [grade |-> g, series |-> o, submission_deadline |-> MaxTime,
                   task_file |-> NoFile] : g \in ResultGrades, o \in Ordinals }
    /\ now = 0
    /\ InitResultsEmpty
    /\ InitStickers

ResultsNext(G, P, Sc, maxTasks, maxApps, maxSubs) ==
    \/ \E g \in G, o \in Ordinals, p \in P : AddTask(g, o, p, maxTasks)
    \/ \E g \in G : AddApplication(g, maxApps)
    \/ \E a \in DOMAIN applications, t \in DOMAIN tasks :
          AddSubmission(a, t, maxSubs)
    \/ \E s \in BagToSet(submissions), sc \in Sc : SetScore(s, sc)
    \/ \E S \in series : S.grade \in G /\ CalculateResults(S)

\* Results over the tasks, applications and submissions of two grades.
NextResults == ResultsNext(ResultGrades, Points, Scores, MaxTasks, MaxApps, MaxSubs)

SpecResults == InitResults /\ [][NextResults]_vars

\* Ranking of the applications of one grade that has one Task, in its
\* first Series.
InitRank ==
    /\ grades = { [pk |-> 1, start_date |-> 1, end_date |-> 2] }
    /\ lastGradeWrite = "saved"
    /\ series = { [grade |-> g, series |-> o, submission_deadline |-> MaxTime,
                   task_file |-> NoFile] : g \in RankGrades, o \in Ordinals }
    /\ now = 0
    /\ tasks = << [series |-> SeriesKey(1, 1), points |-> 1] >>
    /\ applications = <<>>
    /\ submissions = EmptyBag
    /\ results = <<>>
    /\ InitStickers

NextRank ==
    \/ \E g \in RankGrades : AddApplication(g, RankMaxApps)
    \/ \E a \in DOMAIN applications, t \in DOMAIN tasks :
          AddSubmission(a, t, RankMaxSubs)
    \/ \E s \in BagToSet(submissions), sc \in RankScores : SetScore(s, sc)
    \/ \E S \in series : CalculateResults(S)

SpecRank == InitRank /\ [][NextRank]_vars

\* Resolution of eligibility listings against a growing Sticker store.
NextResolve ==
    \/ \E nr \in StickerNrs : AddSticker(nr)
    \/ \E l \in Listings(MaxListing, ListedNrSets) : StickerAutoAssignment(l)
    \/ Finish

SpecResolve == InitGrade /\ [][NextResolve]_vars

\* Resolution and persistence against a store with Stickers 1 and 2.
InitSync ==
    /\ InitGrades
    /\ InitSeries
    /\ InitResultsEmpty
    /\ stickers = << [nr |-> 1], [nr |-> 2] >>
    /\ uses = {}
    /\ listing = <<>>
    /\ resolved = <<>>
    /\ synced = 0

NextSync ==
    \/ \E l \in Listings(MaxSyncListing, ListedNrSets) : StickerAutoAssignment(l)
    \/ SyncStickerAssignment
    \/ Finish

SpecSync == InitSync /\ [][NextSync]_vars

(***************************************************************************)
(* Claims about the Grade store.                                           *)
(***************************************************************************)

\* Two date ranges share a day.
Overlap(g, h) == g.start_date <= h.end_date /\ h.start_date <= g.end_date

\* C1: after any sequence of validated Grade writes, no two distinct
\* stored Grades have date ranges that share a day.
C1_NoOverlap ==
    \A g \in grades, h \in grades : g.pk # h.pk => ~Overlap(g, h)

\* C9: for every date d, get_current(d) is None when no stored Grade's
\* range contains d and otherwise is the one Grade whose range contains d
\* (at most one does); archive(d) is exactly the Grades that ended before
\* d, and the current Grade is never among them.
C9_CurrentAndArchive ==
    \A d \in Days :
        /\ Cardinality(GradesContaining(d)) <= 1
        /\ get_current(d) = GradesContaining(d)
        /\ archive(d) = { g \in grades : g.end_date < d }
        /\ get_current(d) \cap archive(d) = {}

(***************************************************************************)
(* Claims about the submission window.                                     *)
(***************************************************************************)

\* A task file is attached to the Series.
HasTaskFile(s) == s.task_file # NoFile

\* C8: a Series accepts solution submissions iff a task file is attached
\* and its submission_deadline is strictly later than the current time.
C8_AcceptsIffFileAndFuture ==
    \A s \in series :
        accepts_solution_submissions(s)
            <=> (HasTaskFile(s) /\ s.submission_deadline > now)

\* C10: get_current_series returns a Series of the grade with a task file
\* and a future deadline, the earliest such deadline, and returns None
\* exactly when the grade has no such Series.
C10_CurrentSeries ==
    \A g \in SeriesGrades :
        LET open == { s \in SeriesOf(g) :
                        HasTaskFile(s) /\ s.submission_deadline > now }
        IN  /\ (get_current_series(g) = {}) <=> (open = {})
            /\ \A r \in get_current_series(g) :
                  /\ r \in open
                  /\ \A s \in open :
                        r.submission_deadline <= s.submission_deadline

(***************************************************************************)
(* Claims about calculate_results.                                         *)
(***************************************************************************)

\* The submissions of application a for the Tasks of S's grade in S or an
\* earlier Series.
SubmissionsUpTo(S, a) ==
    { s \in BagToSet(submissions) :
        /\ s.application = a
        /\ tasks[s.task].series.grade = S.grade
        /\ tasks[s.task].series.series <= S.series }

\* C2: the cumulative total reported for an application is the sum of the
\* scores of its submissions for the Tasks of S's grade whose Series
\* ordinal is <= S's ordinal, a missing score counting as 0.
C2_TotalIsSumUpToSeries ==
    results # <<>> =>
        \A i \in DOMAIN results.listing :
            results.listing[i].total =
                SumScores(SubmissionsUpTo(results.series,
                                          results.listing[i].application))

\* C3: the per-task mapping reported for an application has exactly the
\* Tasks of S as its keys; a key's value is None when the application has
\* no submission for that Task and otherwise the score of its submission.
C3_ByTasksKeyedByTasksOfSeries ==
    results # <<>> =>
        \A i \in DOMAIN results.listing :
            LET row == results.listing[i]
            IN  /\ DOMAIN row.by_tasks = TasksOf(results.series)
                /\ \A t \in TasksOf(results.series) :
                      LET own == { s \in BagToSet(submissions) :
                                     s.application = row.application /\ s.task = t }
                      IN  IF own = {} THEN row.by_tasks[t] = None
                          ELSE row.by_tasks[t] \in { s.score : s \in own }

\* C4: max_score is the sum of points over the Tasks of S's grade whose
\* Series ordinal is <= S's ordinal, the number 0 when there is none.
C4_MaxScoreIsSumOfPoints ==
    results # <<>> =>
        results.max_score = SumPoints(TasksUpTo(results.series))

\* The place of application a in the order of retrieval.
RetrievedAt(a) == CHOOSE k \in DOMAIN results.applications :
                      results.applications[k] = a

\* C5: the listing holds each application of S's grade exactly once, is
\* sorted by total in non-increasing order, and applications of equal
\* total keep the order in which they were retrieved from the store.
C5_ListingSortedStable ==
    results # <<>> =>
        LET L == results.listing
        IN  /\ Len(L) = Cardinality(ApplicationsOf(results.series.grade))
            /\ { L[i].application : i \in DOMAIN L } =
                  ApplicationsOf(results.series.grade)
            /\ \A i, j \in DOMAIN L :
                  i < j =>
                     /\ L[i].total >= L[j].total
                     /\ L[i].total = L[j].total =>
                           RetrievedAt(L[i].application) <
                              RetrievedAt(L[j].application)

\* Three applications, two of them tied ahead of the third, listed in
\* another order than they were retrieved in.
C5_Witness ==
    /\ results # <<>>
    /\ Len(results.listing) = 3
    /\ results.listing[1].total = results.listing[2].total
    /\ results.listing[2].total > results.listing[3].total
    /\ results.listing[3].application = results.applications[1]

(***************************************************************************)
(* Claims about the stickers.                                              *)
(***************************************************************************)

\* C6: sticker_auto_assignment returns the same Applications in the same
\* order, the i-th with exactly one stored Sticker for each of the i-th
\* input's numbers that a stored Sticker has, and nothing else.
C6_ResolvedMatchesListing ==
    /\ Len(resolved) = Len(listing)
    /\ \A i \in DOMAIN listing :
          /\ resolved[i].application = listing[i].application
          /\ \A k \in DOMAIN resolved[i].stickers :
                /\ resolved[i].stickers[k] \in DOMAIN stickers
                /\ stickers[resolved[i].stickers[k]].nr \in listing[i].nrs
          /\ \A n \in listing[i].nrs :
                Cardinality({ k \in DOMAIN resolved[i].stickers :
                                stickers[resolved[i].stickers[k]].nr = n })
                  = IF \E s \in DOMAIN stickers : stickers[s].nr = n
                    THEN 1 ELSE 0

\* The listing [(app1, {1, 2, 99}), (app2, {2})] resolved against a store
\* with Stickers 1 and 2 and no Sticker 99.
C6_Witness ==
    /\ Len(listing) = 2
    /\ listing[1] = [application |-> 1, nrs |-> {1, 2, 99}]
    /\ listing[2] = [application |-> 2, nrs |-> {2}]
    /\ Len(resolved) = 2
    /\ Len(resolved[1].stickers) = 2
    /\ Len(resolved[2].stickers) = 1

\* The (Sticker, Application) pairs of a resolved listing.
PairsOf(l) ==
    UNION { { <<l[i].stickers[k], l[i].application>> :
                k \in DOMAIN l[i].stickers } : i \in DOMAIN l }

\* C7: a call of sync_sticker_assignment removes no association, after it
\* every pair of the listing is associated, and a repeated call on the
\* same listing leaves the association set as it was.
C7_SyncIdempotent ==
    [][ /\ uses \subseteq uses'
        /\ synced' > 0 => PairsOf(resolved') \subseteq uses'
        /\ (synced > 0 /\ synced' > synced) => uses' = uses ]_vars

\* A listing with a pair has been persisted twice, next to an association
\* that is none of its pairs.
C7_Witness ==
    /\ synced = 2
    /\ PairsOf(resolved) # {}
    /\ uses \ PairsOf(resolved) # {}

====
